---- MODULE Spec2Model ----
(***************************************************************************)
(* Model of bluesky_cli/cli.py: the session file helpers (save_session,    *)
(* load_session, clear_session), the authentication flow get_client and    *)
(* the click commands post, timeline, reply, like, thread, search,         *)
(* profile, whoami and logout.                                             *)
(*                                                                         *)
(* A string is a sequence of one-character strings.  The remote (the       *)
(* atproto Client) is a black box: each login and each content request     *)
(* either returns or raises; login by session string may raise anything    *)
(* (caught by "except Exception"), the other calls raise AtProtocolError.  *)
(* The session file is absent, or present with a text and a permission     *)
(* that makes it readable or not; writing and unlinking always succeed and *)
(* writing does not change the permission of an existing file.  The file   *)
(* system is POSIX (os.linesep is "\n").                                   *)
(***************************************************************************)
EXTENDS Integers, Sequences, FiniteSets, TLC

\* ---------------------------------------------------------------- bounds
\* longest token handled by the session-file operations (SpecSession)
MaxTokenLen == 3
\* longest text of the session file and of an exported session in the
\* command-line runs (Spec)
MaxCachedLen == 1
\* TEXT lengths tried around the limit: MaxPostLen - TextSlack .. MaxPostLen + TextSlack
TextSlack == 1

\* ------------------------------------------------------------- constants
\* "if len(text) > 300"
MaxPostLen == 300

\* ---------------------------------------------------------------- strings
Chars == {"a", " ", "\r", "\n"}

RECURSIVE StringsUpTo(_)
StringsUpTo(n) ==
    IF n = 0 THEN {<<>>}
    ELSE LET shorter == StringsUpTo(n - 1)
         IN  shorter \cup {Append(s, c) : s \in {t \in shorter : Len(t) = n - 1}, c \in Chars}

Tokens == StringsUpTo(MaxTokenLen)
CachedTexts == StringsUpTo(MaxCachedLen)

\* str.isspace() on the characters of Chars
IsSpace(c) == c \in {" ", "\r", "\n"}

RECURSIVE LStrip(_)
LStrip(s) == IF s # <<>> /\ IsSpace(Head(s)) THEN LStrip(Tail(s)) ELSE s

RECURSIVE RStrip(_)
RStrip(s) ==
    IF s # <<>> /\ IsSpace(s[Len(s)]) THEN RStrip(SubSeq(s, 1, Len(s) - 1)) ELSE s

\* str.strip()
Strip(s) == RStrip(LStrip(s))

\* Text-mode write (newline=None): "\n" becomes os.linesep
LineSep == <<"\n">>

RECURSIVE WriteText(_)
WriteText(s) ==
    IF s = <<>> THEN <<>>
    ELSE IF Head(s) = "\n" THEN LineSep \o WriteText(Tail(s))
    ELSE <<Head(s)>> \o WriteText(Tail(s))

\* Text-mode read (newline=None, universal newlines): "\r\n" and "\r" become "\n"
RECURSIVE ReadText(_)
ReadText(s) ==
    IF s = <<>> THEN <<>>
    ELSE IF Head(s) = "\r"
         THEN IF Len(s) >= 2 /\ s[2] = "\n"
              THEN <<"\n">> \o ReadText(SubSeq(s, 3, Len(s)))
              ELSE <<"\n">> \o ReadText(Tail(s))
    ELSE <<Head(s)>> \o ReadText(Tail(s))

\* ----------------------------------------------------------- session file
\* Optional[str]
None == [some |-> FALSE, val |-> <<>>]
Some(s) == [some |-> TRUE, val |-> s]

\* "if session_string:" (None and "" are falsy)
Truthy(o) == o.some /\ o.val # <<>>

\* SESSION_FILE does not exist
AbsentFile == [exists |-> FALSE, readable |-> TRUE, text |-> <<>>]

FilesOver(texts) ==
    {AbsentFile} \cup [exists : {TRUE}, readable : BOOLEAN, text : texts]

\* save_session(client), s = client.export_session_string()
SaveSession(f, s) ==
    [exists |-> TRUE,
     readable |-> IF f.exists THEN f.readable ELSE TRUE,
     text |-> WriteText(s)]

\* load_session() returning the text as read, without .strip()
LoadSessionNoStrip(f) ==
    IF ~f.exists THEN None
    ELSE IF ~f.readable THEN None
    ELSE Some(ReadText(f.text))

\* load_session()
LoadSession(f) ==
    IF ~f.exists THEN None
    ELSE IF ~f.readable THEN None
    ELSE Some(Strip(ReadText(f.text)))

\* clear_session()
ClearSession(f) == IF f.exists THEN AbsentFile ELSE f

\* ------------------------------------------------------------------ state
VARIABLES
    sessionFile,     \* SESSION_FILE on disk
    handleEnv,       \* os.environ.get("BLUESKY_HANDLE")
    passwordEnv,     \* os.environ.get("BLUESKY_APP_PASSWORD")
    cmd,             \* the subcommand of the running (or last) invocation
    textLen,         \* len(text) of the TEXT argument of post and reply
    pc,              \* position of the invocation
    exitCode,        \* exit code of the process, -1 while it runs
    session_string,  \* what load_session() returned last
    client,          \* the authenticated client: its exported session string
    sessionLogins,   \* calls of client.login(session_string=...) in this invocation
    credLogins,      \* calls of client.login(handle, password) in this invocation
    requests,        \* content requests made in this invocation
    stdout,          \* messages echoed to standard output
    stderr,          \* messages echoed to standard error
    restoreResult,   \* outcome of the cached-session login: "none", "ok", "failed"
    credResult,      \* outcome of the credential login: "none", "ok", "failed"
    failures,        \* the kinds of failure met in this invocation
    fileAtStart,     \* sessionFile when the invocation started
    savedBy,         \* the login whose save_session wrote the file in this invocation
    prevLogout,      \* what the previous invocation printed if it was a logout, else "none"
    lastOp,          \* SpecSession: the last session-file operation called
    prevOp,          \* SpecSession: the operation called before it
    token,           \* SpecSession: the string the last save_session wrote, while
                     \* that save is the last call or the one before a load
    fileBefore       \* SpecSession: sessionFile before the last load or clear

cliVars == <<handleEnv, passwordEnv, cmd, textLen, pc, exitCode, client,
             sessionLogins, credLogins, requests, stdout, stderr, restoreResult,
             credResult, failures, fileAtStart, savedBy, prevLogout>>
opVars == <<lastOp, prevOp, token, fileBefore>>
vars == <<sessionFile, session_string, cliVars, opVars>>

\* the subcommands registered on the click group
TextCommands == {"post", "reply"}
OneRequestCommands == {"post", "timeline", "thread", "search", "profile"}
TwoRequestCommands == {"reply", "like"}
Commands == OneRequestCommands \cup TwoRequestCommands \cup {"whoami", "logout"}

TextLens == (MaxPostLen - TextSlack) .. (MaxPostLen + TextSlack)
EnvValues == {None, Some(<<>>), Some(<<"a">>)}

NoClient == [some |-> FALSE, session |-> <<>>]

\* "✓ Posted: ..." and the other first lines a command prints on success
SuccessLine(c) ==
    CASE c = "post" -> "Posted"
      [] c = "timeline" -> "# Timeline"
      [] c = "reply" -> "Replied"
      [] c = "like" -> "Liked post"
      [] c = "thread" -> "--- Post ---"
      [] c = "search" -> "# Search"
      [] c = "profile" -> "# @handle"

\* "Failed to post: {e}" and the like, echoed with err=True
FailureLine(c) ==
    CASE c = "post" -> "Failed to post"
      [] c = "timeline" -> "Failed to get timeline"
      [] c = "reply" -> "Failed to reply"
      [] c = "like" -> "Failed to like"
      [] c = "thread" -> "Failed to get thread"
      [] c = "search" -> "Failed to search"
      [] c = "profile" -> "Failed to get profile"

\* the length check written with >= instead of >
TooLongInclusive(n) == n >= MaxPostLen

\* "if len(text) > 300"
TooLong(n) == n > MaxPostLen

\* the credentials check written with "and" instead of "or"
CredentialsBothMissing(h, p) == ~Truthy(h) /\ ~Truthy(p)

\* "if not handle or not password"
CredentialsMissing(h, p) == ~Truthy(h) \/ ~Truthy(p)

Init ==
    /\ sessionFile \in FilesOver(CachedTexts)
    /\ handleEnv = None /\ passwordEnv = None
    /\ cmd = "none" /\ textLen = 0
    /\ pc = "idle" /\ exitCode = -1
    /\ session_string = None
    /\ client = NoClient
    /\ sessionLogins = 0 /\ credLogins = 0 /\ requests = 0
    /\ stdout = <<>> /\ stderr = <<>>
    /\ restoreResult = "none" /\ credResult = "none"
    /\ failures = {}
    /\ fileAtStart = sessionFile
    /\ savedBy = "none"
    /\ prevLogout = "none"
    /\ lastOp = "none" /\ prevOp = "none" /\ token = <<>>
    /\ fileBefore = AbsentFile

\* sys.exit(code), or the command function returning (code 0)
Exit(code) == pc' = "exited" /\ exitCode' = code

\* main(): the shell runs one subcommand with its arguments and environment
Invoke(c, n, h, p) ==
    /\ pc = "idle"
    /\ cmd' = c
    /\ textLen' = IF c \in TextCommands THEN n ELSE 0
    /\ handleEnv' = h /\ passwordEnv' = p
    /\ pc' = IF c \in TextCommands THEN "check_len"
             ELSE IF c = "logout" THEN "logout" ELSE "get_client"
    /\ exitCode' = -1
    /\ session_string' = None
    /\ client' = NoClient
    /\ sessionLogins' = 0 /\ credLogins' = 0 /\ requests' = 0
    /\ stdout' = <<>> /\ stderr' = <<>>
    /\ restoreResult' = "none" /\ credResult' = "none"
    /\ failures' = {}
    /\ fileAtStart' = sessionFile
    /\ savedBy' = "none"
    /\ UNCHANGED <<sessionFile, prevLogout, opVars>>

\* the process is gone: nothing of it remains but the session file
Return ==
    /\ pc = "exited"
    /\ pc' = "idle"
    /\ prevLogout' = IF cmd = "logout" THEN stdout[1] ELSE "none"
    /\ cmd' = "none" /\ textLen' = 0
    /\ handleEnv' = None /\ passwordEnv' = None
    /\ exitCode' = -1
    /\ session_string' = None
    /\ client' = NoClient
    /\ sessionLogins' = 0 /\ credLogins' = 0 /\ requests' = 0
    /\ stdout' = <<>> /\ stderr' = <<>>
    /\ restoreResult' = "none" /\ credResult' = "none"
    /\ failures' = {}
    /\ fileAtStart' = sessionFile
    /\ savedBy' = "none"
    /\ UNCHANGED <<sessionFile, opVars>>

\* post, reply: the length check before get_client()
CheckLength ==
    /\ pc = "check_len"
    /\ IF TooLong(textLen)
       THEN /\ stderr' = Append(stderr, IF cmd = "post" THEN "Error: Post too long"
                                        ELSE "Error: Reply too long")
            /\ failures' = failures \cup {"validation"}
            /\ Exit(1)
       ELSE /\ pc' = "get_client"
            /\ UNCHANGED <<stderr, failures, exitCode>>
    /\ UNCHANGED <<sessionFile, session_string, handleEnv, passwordEnv, cmd, textLen,
                   client, sessionLogins, credLogins, requests, stdout, restoreResult,
                   credResult, fileAtStart, savedBy, prevLogout, opVars>>

\* get_client: session_string = load_session(); if session_string: ...
GetClientLoad ==
    /\ pc = "get_client"
    /\ session_string' = LoadSession(sessionFile)
    /\ pc' = IF Truthy(session_string') THEN "restore" ELSE "env"
    /\ UNCHANGED <<sessionFile, handleEnv, passwordEnv, cmd, textLen, exitCode, client,
                   sessionLogins, credLogins, requests, stdout, stderr, restoreResult,
                   credResult, failures, fileAtStart, savedBy, prevLogout, opVars>>

\* a restore that succeeds but does not return, falling through to the fresh login
RestoreOkFallThrough(s) ==
    /\ pc = "restore"
    /\ sessionLogins' = sessionLogins + 1
    /\ sessionFile' = SaveSession(sessionFile, s)
    /\ savedBy' = "restore"
    /\ restoreResult' = "ok"
    /\ pc' = "env"
    /\ UNCHANGED <<session_string, handleEnv, passwordEnv, cmd, textLen, exitCode, client,
                   credLogins, requests, stdout, stderr, credResult, failures,
                   fileAtStart, prevLogout, opVars>>

\* get_client: client.login(session_string=...) returns; save_session; return client
RestoreOk(s) ==
    /\ pc = "restore"
    /\ sessionLogins' = sessionLogins + 1
    /\ client' = [some |-> TRUE, session |-> s]
    /\ sessionFile' = SaveSession(sessionFile, s)
    /\ savedBy' = "restore"
    /\ restoreResult' = "ok"
    /\ pc' = "command"
    /\ UNCHANGED <<session_string, handleEnv, passwordEnv, cmd, textLen, exitCode,
                   credLogins, requests, stdout, stderr, credResult, failures,
                   fileAtStart, prevLogout, opVars>>

\* a failed restore that leaves the stale file in place
RestoreFailNoClear ==
    /\ pc = "restore"
    /\ sessionLogins' = sessionLogins + 1
    /\ restoreResult' = "failed"
    /\ pc' = "env"
    /\ UNCHANGED <<sessionFile, session_string, handleEnv, passwordEnv, cmd, textLen,
                   exitCode, client, credLogins, requests, stdout, stderr, credResult,
                   failures, fileAtStart, savedBy, prevLogout, opVars>>

\* get_client: client.login(session_string=...) raises; except Exception: clear_session()
RestoreFail ==
    /\ pc = "restore"
    /\ sessionLogins' = sessionLogins + 1
    /\ sessionFile' = ClearSession(sessionFile)
    /\ restoreResult' = "failed"
    /\ pc' = "env"
    /\ UNCHANGED <<session_string, handleEnv, passwordEnv, cmd, textLen, exitCode, client,
                   credLogins, requests, stdout, stderr, credResult, failures,
                   fileAtStart, savedBy, prevLogout, opVars>>

\* get_client: the two environment variables are read and checked
CheckEnv ==
    /\ pc = "env"
    /\ IF CredentialsMissing(handleEnv, passwordEnv)
       THEN /\ stderr' = Append(stderr,
                    "Error: BLUESKY_HANDLE and BLUESKY_APP_PASSWORD must be set")
            /\ failures' = failures \cup {"credentials"}
            /\ Exit(1)
       ELSE /\ pc' = "cred_login"
            /\ UNCHANGED <<stderr, failures, exitCode>>
    /\ UNCHANGED <<sessionFile, session_string, handleEnv, passwordEnv, cmd, textLen,
                   client, sessionLogins, credLogins, requests, stdout, restoreResult,
                   credResult, fileAtStart, savedBy, prevLogout, opVars>>

\* a fresh login that returns the client without save_session
CredLoginOkNoSave(s) ==
    /\ pc = "cred_login"
    /\ credLogins' = credLogins + 1
    /\ client' = [some |-> TRUE, session |-> s]
    /\ stderr' = Append(stderr, "Logged in (session cached)")
    /\ credResult' = "ok"
    /\ pc' = "command"
    /\ UNCHANGED <<sessionFile, session_string, handleEnv, passwordEnv, cmd, textLen,
                   exitCode, sessionLogins, requests, stdout, restoreResult, failures,
                   fileAtStart, savedBy, prevLogout, opVars>>

\* get_client: client.login(handle, password) returns; save_session; return client
CredLoginOk(s) ==
    /\ pc = "cred_login"
    /\ credLogins' = credLogins + 1
    /\ client' = [some |-> TRUE, session |-> s]
    /\ sessionFile' = SaveSession(sessionFile, s)
    /\ savedBy' = "fresh"
    /\ stderr' = Append(stderr, "Logged in (session cached)")
    /\ credResult' = "ok"
    /\ pc' = "command"
    /\ UNCHANGED <<session_string, handleEnv, passwordEnv, cmd, textLen, exitCode,
                   sessionLogins, requests, stdout, restoreResult, failures,
                   fileAtStart, prevLogout, opVars>>

\* a failed fresh login that also clears the session file
CredLoginFailClears ==
    /\ pc = "cred_login"
    /\ credLogins' = credLogins + 1
    /\ stderr' = Append(stderr, "Login failed")
    /\ credResult' = "failed"
    /\ failures' = failures \cup {"login"}
    /\ sessionFile' = ClearSession(sessionFile)
    /\ Exit(1)
    /\ UNCHANGED <<session_string, handleEnv, passwordEnv, cmd, textLen,
                   client, sessionLogins, requests, stdout, restoreResult,
                   fileAtStart, savedBy, prevLogout, opVars>>

\* get_client: client.login(handle, password) raises AtProtocolError
CredLoginFail ==
    /\ pc = "cred_login"
    /\ credLogins' = credLogins + 1
    /\ stderr' = Append(stderr, "Login failed")
    /\ credResult' = "failed"
    /\ failures' = failures \cup {"login"}
    /\ Exit(1)
    /\ UNCHANGED <<sessionFile, session_string, handleEnv, passwordEnv, cmd, textLen,
                   client, sessionLogins, requests, stdout, restoreResult,
                   fileAtStart, savedBy, prevLogout, opVars>>

\* whoami: prints client.me and, if the file exists, where the session is cached
Whoami ==
    /\ pc = "command" /\ cmd = "whoami"
    /\ stdout' = stdout \o <<"Logged in as", "DID">>
                   \o (IF sessionFile.exists THEN <<"Session cached at">> ELSE <<>>)
    /\ Exit(0)
    /\ UNCHANGED <<sessionFile, session_string, handleEnv, passwordEnv, cmd, textLen,
                   client, sessionLogins, credLogins, requests, stderr, restoreResult,
                   credResult, failures, fileAtStart, savedBy, prevLogout, opVars>>

\* post, timeline, thread, search, profile: the request returns, the result is printed
RequestOk ==
    /\ pc = "command" /\ cmd \in OneRequestCommands
    /\ requests' = requests + 1
    /\ stdout' = Append(stdout, SuccessLine(cmd))
    /\ Exit(0)
    /\ UNCHANGED <<sessionFile, session_string, handleEnv, passwordEnv, cmd, textLen,
                   client, sessionLogins, credLogins, stderr, restoreResult,
                   credResult, failures, fileAtStart, savedBy, prevLogout, opVars>>

\* a failed request that is reported but not followed by sys.exit(1)
RequestFailNoExit ==
    /\ pc = "command" /\ cmd \in OneRequestCommands
    /\ requests' = requests + 1
    /\ stderr' = Append(stderr, FailureLine(cmd))
    /\ failures' = failures \cup {"request"}
    /\ Exit(0)
    /\ UNCHANGED <<sessionFile, session_string, handleEnv, passwordEnv, cmd, textLen,
                   client, sessionLogins, credLogins, stdout, restoreResult,
                   credResult, fileAtStart, savedBy, prevLogout, opVars>>

\* post, timeline, thread, search, profile: the request raises AtProtocolError
RequestFail ==
    /\ pc = "command" /\ cmd \in OneRequestCommands
    /\ requests' = requests + 1
    /\ stderr' = Append(stderr, FailureLine(cmd))
    /\ failures' = failures \cup {"request"}
    /\ Exit(1)
    /\ UNCHANGED <<sessionFile, session_string, handleEnv, passwordEnv, cmd, textLen,
                   client, sessionLogins, credLogins, stdout, restoreResult,
                   credResult, fileAtStart, savedBy, prevLogout, opVars>>

\* reply, like: the lookup returns and the command reports success without the second call
LookupOkNoSecond ==
    /\ pc = "command" /\ cmd \in TwoRequestCommands
    /\ requests' = requests + 1
    /\ stdout' = Append(stdout, SuccessLine(cmd))
    /\ Exit(0)
    /\ UNCHANGED <<sessionFile, session_string, handleEnv, passwordEnv, cmd, textLen,
                   client, sessionLogins, credLogins, stderr, restoreResult,
                   credResult, failures, fileAtStart, savedBy, prevLogout, opVars>>

\* reply, like: client.get_post_thread(uri=post_uri) returns the parent post
LookupOk ==
    /\ pc = "command" /\ cmd \in TwoRequestCommands
    /\ requests' = requests + 1
    /\ pc' = "second"
    /\ UNCHANGED <<sessionFile, session_string, handleEnv, passwordEnv, cmd, textLen,
                   exitCode, client, sessionLogins, credLogins, stdout, stderr,
                   restoreResult, credResult, failures, fileAtStart, savedBy,
                   prevLogout, opVars>>

\* reply, like: client.get_post_thread(uri=post_uri) raises AtProtocolError
LookupFail ==
    /\ pc = "command" /\ cmd \in TwoRequestCommands
    /\ requests' = requests + 1
    /\ stderr' = Append(stderr, FailureLine(cmd))
    /\ failures' = failures \cup {"lookup"}
    /\ Exit(1)
    /\ UNCHANGED <<sessionFile, session_string, handleEnv, passwordEnv, cmd, textLen,
                   client, sessionLogins, credLogins, stdout, restoreResult,
                   credResult, fileAtStart, savedBy, prevLogout, opVars>>

\* reply: client.send_post(text, reply_to) returns; like: client.like(uri, cid) returns
SecondOk ==
    /\ pc = "second"
    /\ requests' = requests + 1
    /\ stdout' = Append(stdout, SuccessLine(cmd))
    /\ Exit(0)
    /\ UNCHANGED <<sessionFile, session_string, handleEnv, passwordEnv, cmd, textLen,
                   client, sessionLogins, credLogins, stderr, restoreResult,
                   credResult, failures, fileAtStart, savedBy, prevLogout, opVars>>

\* reply: client.send_post raises AtProtocolError; like: client.like raises it
SecondFail ==
    /\ pc = "second"
    /\ requests' = requests + 1
    /\ stderr' = Append(stderr, FailureLine(cmd))
    /\ failures' = failures \cup {"request"}
    /\ Exit(1)
    /\ UNCHANGED <<sessionFile, session_string, handleEnv, passwordEnv, cmd, textLen,
                   client, sessionLogins, credLogins, stdout, restoreResult,
                   credResult, fileAtStart, savedBy, prevLogout, opVars>>

\* a logout that reports but does not unlink
LogoutNoUnlink ==
    /\ pc = "logout"
    /\ stdout' = Append(stdout, IF sessionFile.exists THEN "Session cleared"
                                ELSE "No cached session found")
    /\ Exit(0)
    /\ UNCHANGED <<sessionFile, session_string, handleEnv, passwordEnv, cmd, textLen,
                   client, sessionLogins, credLogins, requests, stderr, restoreResult,
                   credResult, failures, fileAtStart, savedBy, prevLogout, opVars>>

\* logout: clear_session() if SESSION_FILE.exists(), and a message either way
Logout ==
    /\ pc = "logout"
    /\ IF sessionFile.exists
       THEN /\ sessionFile' = ClearSession(sessionFile)
            /\ stdout' = Append(stdout, "Session cleared")
       ELSE /\ stdout' = Append(stdout, "No cached session found")
            /\ UNCHANGED sessionFile
    /\ Exit(0)
    /\ UNCHANGED <<session_string, handleEnv, passwordEnv, cmd, textLen, client,
                   sessionLogins, credLogins, requests, stderr, restoreResult,
                   credResult, failures, fileAtStart, savedBy, prevLogout, opVars>>

Next ==
    \/ \E c \in Commands, n \in TextLens, h \in EnvValues, p \in EnvValues :
           Invoke(c, n, h, p)
    \/ Return
    \/ CheckLength
    \/ GetClientLoad
    \/ \E s \in CachedTexts : RestoreOk(s)
    \/ RestoreFail
    \/ CheckEnv
    \/ \E s \in CachedTexts : CredLoginOk(s)
    \/ CredLoginFail
    \/ Whoami
    \/ RequestOk
    \/ RequestFail
    \/ LookupOk
    \/ LookupFail
    \/ SecondOk
    \/ SecondFail
    \/ Logout

Spec == Init /\ [][Next]_vars

\* ------------------------------------------- the session-file operations alone
\* any file, then save_session, load_session and clear_session in any order

InitSession ==
    /\ sessionFile \in FilesOver(Tokens)
    /\ handleEnv = None /\ passwordEnv = None
    /\ cmd = "none" /\ textLen = 0
    /\ pc = "idle" /\ exitCode = -1
    /\ session_string = None
    /\ client = NoClient
    /\ sessionLogins = 0 /\ credLogins = 0 /\ requests = 0
    /\ stdout = <<>> /\ stderr = <<>>
    /\ restoreResult = "none" /\ credResult = "none"
    /\ failures = {}
    /\ fileAtStart = AbsentFile
    /\ savedBy = "none"
    /\ prevLogout = "none"
    /\ lastOp = "none" /\ prevOp = "none" /\ token = <<>>
    /\ fileBefore = sessionFile

\* save_session(client) with client.export_session_string() = t; returns None
CallSave(t) ==
    /\ sessionFile' = SaveSession(sessionFile, t)
    /\ session_string' = None
    /\ token' = t
    /\ lastOp' = "save" /\ prevOp' = lastOp
    /\ fileBefore' = sessionFile'
    /\ UNCHANGED cliVars

\* session_string = load_session(); token is kept while the save is the call before
CallLoad ==
    /\ session_string' = LoadSession(sessionFile)
    /\ token' = IF lastOp = "save" THEN token ELSE <<>>
    /\ lastOp' = "load" /\ prevOp' = lastOp
    /\ fileBefore' = sessionFile
    /\ UNCHANGED <<sessionFile, cliVars>>

\* clear_session(); returns None
CallClear ==
    /\ sessionFile' = ClearSession(sessionFile)
    /\ session_string' = None
    /\ token' = <<>>
    /\ lastOp' = "clear" /\ prevOp' = lastOp
    /\ fileBefore' = sessionFile
    /\ UNCHANGED cliVars

NextSession ==
    \/ \E t \in Tokens : CallSave(t)
    \/ CallLoad
    \/ CallClear

SpecSession == InitSession /\ [][NextSession]_vars

\* ----------------------------------------------------------------- claims

BothCredentialsSet == Truthy(handleEnv) /\ Truthy(passwordEnv)

\* C1: post and reply with a TEXT longer than 300 characters exit with code 1
\* straight from the length check: get_client is never entered, so no login of
\* either kind and no content request is made and the session file is what it
\* was when the invocation started; a TEXT of 300 characters or fewer passes
\* the check.
OversizedTextRejectedLocally ==
    (cmd \in TextCommands /\ pc # "check_len") =>
        IF textLen > MaxPostLen
        THEN /\ pc = "exited" /\ exitCode = 1
             /\ sessionLogins = 0 /\ credLogins = 0 /\ requests = 0
             /\ session_string = None /\ ~client.some
             /\ restoreResult = "none" /\ credResult = "none"
             /\ sessionFile = fileAtStart
             /\ failures = {"validation"}
             /\ Len(stderr) = 1 /\ stdout = <<>>
        ELSE "validation" \notin failures

OversizedReplyRejected ==
    /\ cmd = "reply" /\ textLen > MaxPostLen /\ pc = "exited"
    /\ sessionFile.exists /\ BothCredentialsSet

\* C2: logout unlinks the session file when it exists and prints "Session
\* cleared", prints "No cached session found" and changes nothing when it does
\* not; a logout right after a logout always takes the second branch; logout
\* exits 0 without any login, request or use of the credentials.
LogoutClearsSession ==
    (cmd = "logout" /\ pc = "exited") =>
        /\ exitCode = 0
        /\ sessionLogins = 0 /\ credLogins = 0 /\ requests = 0
        /\ ~client.some /\ stderr = <<>> /\ failures = {}
        /\ ~sessionFile.exists
        /\ IF fileAtStart.exists
           THEN stdout = <<"Session cleared">>
           ELSE stdout = <<"No cached session found">> /\ sessionFile = fileAtStart
        /\ (prevLogout # "none" =>
               stdout = <<"No cached session found">> /\ sessionFile = fileAtStart)

SecondLogoutFindsNone ==
    /\ cmd = "logout" /\ pc = "exited"
    /\ prevLogout = "Session cleared"
    /\ stdout = <<"No cached session found">>
    /\ handleEnv = None /\ passwordEnv = None

RejectedSessionWithoutCredentialsFails ==
    (restoreResult = "failed" /\ ~BothCredentialsSet) =>
        /\ credLogins = 0 /\ requests = 0 /\ ~client.some
        /\ ~sessionFile.exists
        /\ pc \in {"env", "exited"}
        /\ (pc = "exited" =>
               /\ exitCode = 1
               /\ stderr = <<"Error: BLUESKY_HANDLE and BLUESKY_APP_PASSWORD must be set">>
               /\ stdout = <<>>)

RejectedSessionEmptyPassword ==
    /\ restoreResult = "failed" /\ pc = "exited"
    /\ Truthy(handleEnv) /\ passwordEnv = Some(<<>>)
    /\ cmd = "timeline"

FailedRestoreAlwaysTriesCredentials ==
    (pc = "exited" /\ restoreResult = "failed") => credLogins = 1

\* C6, amended: at most one login by session string (only with a loaded,
\* non-empty string) and at most one by credentials (only when nothing was
\* loaded or the restore failed); a failed restore has deleted the file before
\* any credential login; after it the credential login is attempted exactly
\* once when both variables are set and not at all otherwise; a failed
\* credential login ends the invocation.
AtMostOneFallbackLogin ==
    /\ sessionLogins <= 1 /\ credLogins <= 1
    /\ (sessionLogins = 1 <=> restoreResult # "none")
    /\ (sessionLogins = 1 => Truthy(session_string))
    /\ (credLogins = 1 <=> credResult # "none")
    /\ (credLogins = 1 => (~Truthy(session_string) \/ restoreResult = "failed"))
    /\ (restoreResult = "failed" /\ credLogins = 0 => ~sessionFile.exists)
    /\ (restoreResult = "failed" /\ pc = "exited" =>
           credLogins = IF BothCredentialsSet THEN 1 ELSE 0)
    /\ (credResult = "failed" => pc = "exited" /\ exitCode = 1 /\ credLogins = 1)

FallbackLoginFailed ==
    /\ pc = "exited" /\ restoreResult = "failed" /\ credResult = "failed"
    /\ fileAtStart.exists /\ ~sessionFile.exists

SessionFileHoldsClientSession ==
    client.some =>
        /\ sessionFile.exists
        /\ sessionFile.text = client.session
        /\ (restoreResult = "ok" \/ credResult = "ok")
        /\ savedBy = (IF restoreResult = "ok" THEN "restore" ELSE "fresh")
        /\ pc \in {"command", "second", "exited"}

ClientReturnedAfterRejectedSession ==
    /\ pc = "command" /\ client.some
    /\ restoreResult = "failed" /\ credResult = "ok"
    /\ fileAtStart.exists /\ fileAtStart.text # sessionFile.text

\* C10: a step that deletes the session file is the logout or the failed
\* restore of get_client; a step that ends an invocation with exit code 1, and
\* the start and the end of an invocation, leave the file unchanged.
SessionFileDeletedOnlyByLogoutOrRestore ==
    [][/\ (sessionFile.exists /\ ~sessionFile'.exists) =>
              (pc = "logout" \/ (pc = "restore" /\ restoreResult' = "failed"))
       /\ (pc # "exited" /\ pc' = "exited" /\ exitCode' = 1) =>
              sessionFile' = sessionFile
       /\ (pc \in {"idle", "exited", "check_len", "get_client", "env", "command",
                   "second"}) => sessionFile' = sessionFile]_vars

FailedRequestKeepsSession ==
    /\ pc = "exited" /\ "request" \in failures /\ sessionFile.exists

\* a string without leading or trailing whitespace
NoEdgeSpace(t) == t = <<>> \/ (~IsSpace(t[1]) /\ ~IsSpace(t[Len(t)]))

\* a string that has no carriage return
NoCarriageReturn(t) == \A i \in 1..Len(t) : t[i] # "\r"

\* C7 as stated: on a readable file, load_session() right after
\* save_session wrote token t returns t, for every t.
SaveThenLoadReturnsToken ==
    (lastOp = "load" /\ prevOp = "save" /\ sessionFile.readable) =>
        session_string = Some(token)

\* C7, amended: on a readable file, load_session() right after save_session
\* wrote t returns a string without leading or trailing whitespace, which is
\* t whenever t has no leading or trailing whitespace and no carriage return;
\* load_session() returns None when the file is absent or unreadable;
\* save_session leaves a file; clear_session() leaves no file and changes
\* nothing when there was none, so a load after it returns None and a second
\* clear changes nothing.
SessionFileContract ==
    /\ (lastOp = "load" /\ prevOp = "save" /\ sessionFile.readable) =>
           /\ session_string.some
           /\ NoEdgeSpace(session_string.val)
           /\ (NoEdgeSpace(token) /\ NoCarriageReturn(token) =>
                   session_string = Some(token))
    /\ (lastOp = "load" /\ (~sessionFile.exists \/ ~sessionFile.readable)) =>
           session_string = None
    /\ (lastOp = "save" => sessionFile.exists /\ sessionFile.text = token)
    /\ (lastOp = "clear" =>
           /\ ~sessionFile.exists
           /\ (~fileBefore.exists => sessionFile = fileBefore))
    /\ (lastOp = "load" /\ prevOp = "clear") => session_string = None
    /\ (lastOp = "clear" /\ prevOp = "clear") => sessionFile = fileBefore

SavedTokenLoadedBack ==
    /\ lastOp = "load" /\ prevOp = "save" /\ sessionFile.readable
    /\ token = <<"a", "\n", "a">>
    /\ session_string = Some(token)

====
